---------------------------- MODULE Spec2Model ----------------------------
(***************************************************************************)
(* A model of pycomedi's bit-packing, buffer-ownership and constant-       *)
(* registry code.                                                          *)
(*                                                                         *)
(* Python integers are unbounded; a 32-bit word does not fit TLC's signed  *)
(* 32-bit integers.  An integer n is therefore carried as the record       *)
(* [hi |-> h, lo |-> l] with n = h * 65536 + l and l \in 0..65535; h may   *)
(* be negative (two's complement, as Python's bitwise operators see it).   *)
(***************************************************************************)
EXTENDS Integers, Sequences, FiniteSets, TLC

VARIABLES
    csValue,    \* ChanSpec.value of the ChanSpec instance under test
    csOp,       \* the last operation applied to it, with its arguments
    heap,       \* every block malloc returned: times freed, and its cells
    ptr,        \* _insn.data, _cmd.chanlist, _cmd.data: a block or NULL
    blen,       \* _insn.n, _cmd.chanlist_len, _cmd.data_len
    insnChanspec, \* _insn.chanspec
    alive,      \* which of the Insn and the Command still exist
    view,       \* the object the last property read returned
    bufOp,      \* the last operation on the Insn or Command, and its outcome
    lastFreed,  \* the blocks that operation passed to free
    proc,       \* "running", or "aborted" once the C runtime killed the process
    allOk,      \* no assignment to data or chanlist has raised so far
    usedDriver, \* do_insn or do_insnlist has handed the Insn to the driver
    comedi,     \* the attributes of the comedi module: <<name, value>> pairs
    args,       \* the arguments the registry is constructed with
    registry,   \* the _Enum or _Flag instance
    regPc,      \* "new", "built", or "failed" once __init__ has raised
    regOp,      \* the last operation on the registry, and its outcome
    appends,    \* the appends made to the registry since its construction
    opnd,       \* the two operands of a bitwise operation or comparison
    algOp,      \* the last operation applied to them, and its result
    cmd,        \* the scalar fields of a Command: _cmd.flags, _cmd.start_src
    fv,         \* a FlagValue instance over the registry
    fvOp,       \* the last operation on the FlagValue, and its outcome
    setting,    \* the comedi_calibration_setting_t of a CalibrationSetting
    devOp       \* the last call on a subdevice, channel or setting

chanVars == <<csValue, csOp>>

bufVars ==
    <<heap, ptr, blen, insnChanspec, alive, view, bufOp, lastFreed, proc, allOk,
      usedDriver>>

regVars == <<comedi, args, registry, regPc, regOp, appends>>

algVars == <<opnd, algOp, cmd>>

fvVars == <<fv, fvOp>>

devVars == <<setting, devOp>>

vars == <<chanVars, bufVars, regVars, algVars, fvVars, devVars>>

---------------------------------------------------------------------------
(* Python integer arithmetic on [hi, lo] records                           *)

\* the base of the two-limb representation, 2^16
Limb == 256 * 256

Norm(h, l) == [hi |-> h + (l \div Limb), lo |-> l % Limb]

PyInt(n) == Norm(0, n)

RECURSIVE BitAndInt(_, _)
BitAndInt(a, b) ==
    IF a = 0 \/ b = 0 THEN 0
    ELSE IF a = -1 THEN b
    ELSE IF b = -1 THEN a
    ELSE 2 * BitAndInt(a \div 2, b \div 2) + (a % 2) * (b % 2)

RECURSIVE BitOrInt(_, _)
BitOrInt(a, b) ==
    IF a = 0 THEN b
    ELSE IF b = 0 THEN a
    ELSE IF a = -1 \/ b = -1 THEN -1
    ELSE 2 * BitOrInt(a \div 2, b \div 2)
         + (IF a % 2 = 1 \/ b % 2 = 1 THEN 1 ELSE 0)

PyAnd(x, y) == [hi |-> BitAndInt(x.hi, y.hi), lo |-> BitAndInt(x.lo, y.lo)]

PyOr(x, y) == [hi |-> BitOrInt(x.hi, y.hi), lo |-> BitOrInt(x.lo, y.lo)]

PySub(x, y) == Norm(x.hi - y.hi, x.lo - y.lo)

PyAdd(x, y) == Norm(x.hi + y.hi, x.lo + y.lo)

PyLess(x, y) == x.hi < y.hi \/ (x.hi = y.hi /\ x.lo < y.lo)

\* x << 16 and x << 24, used on operands already masked to one byte
Shl16(x) == [hi |-> x.hi * Limb + x.lo, lo |-> 0]

Shl24(x) == Shl16(Norm(x.hi * 256, x.lo * 256))

\* x >> 16 and x >> 24
Shr16(x) == [hi |-> x.hi \div Limb, lo |-> x.hi % Limb]

Shr24(x) == [hi |-> x.hi \div (256 * Limb), lo |-> (x.hi \div 256) % Limb]

Zero == PyInt(0)

XFF == PyInt(255)

X03 == PyInt(3)

\* 0xffffffff
AllOnes == [hi |-> 65535, lo |-> 65535]

IsWord32(x) == x.hi \in 0..65535 /\ x.lo \in 0..65535

---------------------------------------------------------------------------
(* constant.bitwise_value and the registries ChanSpec decodes through      *)

\* A BitwiseOperator instance is a record with a value field; a plain
\* integer is the [hi, lo] record itself.
BitwiseOperator(v) == [value |-> v]

IsBitwiseOperator(o) == "value" \in DOMAIN o

bitwise_value(o) == IF IsBitwiseOperator(o) THEN o.value ELSE o

\* comedi.h: CR_FLAGS_MASK = 0xfc000000, the one multi-bit CR_ constant,
\* which _Flag.__init__ makes CR._all
CR_all_value == [hi |-> 64512, lo |-> 0]

\* comedi.h: AREF_GROUND 0, AREF_COMMON 1, AREF_DIFF 2, AREF_OTHER 3
AREF_value_keys ==
    (PyInt(0) :> "ground") @@ (PyInt(1) :> "common") @@
    (PyInt(2) :> "diff") @@ (PyInt(3) :> "other")

\* _Enum.index_by_value on AREF: a dictionary lookup, KeyError when absent
AREF_index_by_value(v) ==
    IF v \in DOMAIN AREF_value_keys THEN AREF_value_keys[v] ELSE "KeyError"

\* FlagValue(flag, value, default='-'): self.flag, self._value and
\* self._default; it has no value
\* attribute and is no BitwiseOperator
FlagValue(flag, v) == [flag |-> flag, _value |-> v, _default |-> <<"-">>]

---------------------------------------------------------------------------
(* chanspec.ChanSpec: getters and setters on the packed word               *)

_chan_get(value) == PyAnd(value, XFF)

_chan_set(value, v) ==
    PyOr(PyAnd(value, PySub(AllOnes, XFF)), PyAnd(bitwise_value(v), XFF))

\* shifting by 8 instead of 16: reads the unused second byte
_range_get_shift8(value) == PyAnd([hi |-> 0, lo |-> value.lo \div 256], XFF)

_range_get(value) == PyAnd(Shr16(value), XFF)

_range_set(value, v) ==
    PyOr(PyAnd(value, PySub(AllOnes, Shl16(XFF))),
         Shl16(PyAnd(bitwise_value(v), XFF)))

_aref_get(value) == AREF_index_by_value(PyAnd(Shr24(value), X03))

\* a mask one bit too wide: the aref field spills into the flag bits
_aref_set_wide(value, v) ==
    PyOr(PyAnd(value, PySub(AllOnes, Shl24(PyInt(7)))),
         Shl24(PyAnd(bitwise_value(v), PyInt(7))))

_aref_set(value, v) ==
    PyOr(PyAnd(value, PySub(AllOnes, Shl24(X03))),
         Shl24(PyAnd(bitwise_value(v), X03)))

_flags_get(value) == FlagValue("CR", PyAnd(value, CR_all_value))

_flags_set(value, v) ==
    PyOr(PyAnd(value, PySub(AllOnes, CR_all_value)),
         PyAnd(bitwise_value(v), CR_all_value))

\* ChanSpec.__init__: value = 0, then the four property assignments
ChanSpec__init__(chan, range, aref, flags) ==
    _flags_set(_aref_set(_range_set(_chan_set(Zero, chan), range), aref), flags)

\* what the four properties of a ChanSpec read
Decode(value) ==
    [chan |-> _chan_get(value), range |-> _range_get(value),
     aref |-> _aref_get(value), flags |-> _flags_get(value)]

---------------------------------------------------------------------------
(* the fields of Insn and Command that own a malloc'ed buffer              *)

Fields == {"insn_data", "cmd_chanlist", "cmd_data"}

NULL == 0

\* the caller holds no object returned by a read
NoView == [field |-> "none", shares |-> FALSE, cells |-> <<>>]

---------------------------------------------------------------------------
(* inputs                                                                  *)

\* channel and range arguments: in range, at the edges, and out of range
ByteInputs == {PyInt(0), PyInt(1), PyInt(255), PyInt(257), PyInt(-1)}

\* the constructor's arguments: a subset of the setters' arguments
NewByteInputs == {PyInt(0), PyInt(255), PyInt(257)}

NewArefInputs == {PyInt(0), PyInt(3), PyInt(6), BitwiseOperator(PyInt(2))}

\* aref arguments: the four members (as integers or as AREF members), and
\* out-of-range integers
ArefInputs ==
    {PyInt(0), PyInt(1), PyInt(2), PyInt(3), PyInt(6), PyInt(-1),
     BitwiseOperator(PyInt(2)), BitwiseOperator(PyInt(3))}

\* comedi.h: CR_ALT_FILTER 1<<26, CR_ALT_SOURCE 1<<27, CR_EDGE 1<<30,
\* CR_INVERT 1<<31
CR_alt_filter == [hi |-> 1024, lo |-> 0]

CR_edge == [hi |-> 16384, lo |-> 0]

CR_invert == [hi |-> 32768, lo |-> 0]

\* flags arguments: subsets of the mask, and integers with bits outside it
FlagInputs ==
    {Zero, CR_alt_filter, PyOr(CR_edge, CR_invert), CR_all_value,
     BitwiseOperator(PyOr(CR_edge, CR_invert)),
     AllOnes, PyInt(-1), [hi |-> 1027, lo |-> 515]}

NewFlagInputs ==
    {Zero, CR_all_value, BitwiseOperator(PyOr(CR_edge, CR_invert)), AllOnes}

\* words a ChanSpec's value is set to directly (Insn._chanspec_get and
\* Command._chanlist_get store the C word into a fresh ChanSpec)
WordInputs == {Zero, AllOnes, [hi |-> 0, lo |-> 65280], [hi |-> 43605, lo |-> 21930]}

InByteRange(x) == ~IsBitwiseOperator(x) /\ x.hi = 0 /\ x.lo \in 0..255

InArefRange(x) == bitwise_value(x).hi = 0 /\ bitwise_value(x).lo \in 0..3

InFlagMask(x) == PyAnd(bitwise_value(x), CR_all_value) = bitwise_value(x)

---------------------------------------------------------------------------
(* actions on the ChanSpec instance                                        *)

InitChan ==
    /\ csValue = Zero
    /\ csOp = [op |-> "none"]

\* c = ChanSpec(chan, range, aref, flags)
NewChanSpec ==
    \E chan \in NewByteInputs, range \in NewByteInputs,
       aref \in NewArefInputs, flags \in NewFlagInputs :
        /\ csValue' = ChanSpec__init__(chan, range, aref, flags)
        /\ csOp' = [op |-> "new", chan |-> chan, range |-> range,
                    aref |-> aref, flags |-> flags]
        /\ UNCHANGED <<bufVars, regVars, algVars, fvVars, devVars>>

\* c.value = w
SetValue ==
    \E w \in WordInputs :
        /\ csValue' = w
        /\ csOp' = [op |-> "value", arg |-> w]
        /\ UNCHANGED <<bufVars, regVars, algVars, fvVars, devVars>>

\* c.chan = v
SetChan ==
    \E v \in ByteInputs :
        /\ csValue' = _chan_set(csValue, v)
        /\ csOp' = [op |-> "chan", arg |-> v]
        /\ UNCHANGED <<bufVars, regVars, algVars, fvVars, devVars>>

\* c.range = v
SetRange ==
    \E v \in ByteInputs :
        /\ csValue' = _range_set(csValue, v)
        /\ csOp' = [op |-> "range", arg |-> v]
        /\ UNCHANGED <<bufVars, regVars, algVars, fvVars, devVars>>

\* c.aref = v
SetAref ==
    \E v \in ArefInputs :
        /\ csValue' = _aref_set(csValue, v)
        /\ csOp' = [op |-> "aref", arg |-> v]
        /\ UNCHANGED <<bufVars, regVars, algVars, fvVars, devVars>>

\* c.flags = v
SetFlags ==
    \E v \in FlagInputs :
        /\ csValue' = _flags_set(csValue, v)
        /\ csOp' = [op |-> "flags", arg |-> v]
        /\ UNCHANGED <<bufVars, regVars, algVars, fvVars, devVars>>

\* Python's None
None == [none |-> TRUE]

\* no registry is under construction
IdleReg ==
    /\ comedi = {}
    /\ args = None
    /\ registry = None
    /\ regPc = "idle"
    /\ regOp = [op |-> "none"]
    /\ appends = 0

\* no operation on BitwiseOperators is under way; a Command has zeroed
\* scalar fields
IdleAlg ==
    /\ opnd = None
    /\ algOp = [op |-> "none"]
    /\ cmd = [flags |-> [hi |-> 0, lo |-> 0], start_src |-> [hi |-> 0, lo |-> 0]]

\* no FlagValue exists
IdleFV ==
    /\ fv = None
    /\ fvOp = [op |-> "none"]

\* no subdevice, channel or calibration setting is in use
IdleDev ==
    /\ setting = None
    /\ devOp = [op |-> "none"]

\* no Insn and no Command exist
IdleBuf ==
    /\ heap = <<>>
    /\ ptr = [f \in Fields |-> NULL]
    /\ blen = [f \in Fields |-> 0]
    /\ insnChanspec = Zero
    /\ alive = [o \in {"insn", "cmd"} |-> FALSE]
    /\ view = NoView
    /\ bufOp = [op |-> "none"]
    /\ lastFreed = {}
    /\ proc = "running"
    /\ allOk = TRUE
    /\ usedDriver = FALSE

NextChan ==
    \/ NewChanSpec
    \/ SetValue
    \/ SetChan
    \/ SetRange
    \/ SetAref
    \/ SetFlags

InitChanSpec == InitChan /\ IdleBuf /\ IdleReg /\ IdleAlg /\ IdleFV /\ IdleDev

SpecChan == InitChanSpec /\ [][NextChan]_vars

---------------------------------------------------------------------------
(* C1: a ChanSpec built from chan and range in 0..255, aref in 0..3 and    *)
(* flags inside the CR mask reads back chan, range, the AREF member whose  *)
(* value is aref and a FlagValue over CR whose value is flags.             *)
C1_RoundTrip ==
    (/\ csOp.op = "new"
     /\ InByteRange(csOp.chan) /\ InByteRange(csOp.range)
     /\ InArefRange(csOp.aref) /\ InFlagMask(csOp.flags))
    => /\ _chan_get(csValue) = csOp.chan
       /\ _range_get(csValue) = csOp.range
       /\ _aref_get(csValue) = AREF_value_keys[bitwise_value(csOp.aref)]
       /\ _flags_get(csValue) = FlagValue("CR", bitwise_value(csOp.flags))

C1_Witness ==
    /\ csOp.op = "new"
    /\ csOp.chan = PyInt(255) /\ csOp.range = PyInt(255)
    /\ csOp.aref = BitwiseOperator(PyInt(2))
    /\ csOp.flags = BitwiseOperator(PyOr(CR_edge, CR_invert))
    /\ csValue = [hi |-> 49919, lo |-> 255]

(* C2: assigning any integer to one of chan, range, aref, flags of a       *)
(* ChanSpec holding a 32-bit value leaves what the other three read        *)
(* unchanged.                                                              *)
C2_Isolation ==
    [][/\ IsWord32(csValue)
       /\ csOp'.op \in {"chan", "range", "aref", "flags"}
       => /\ IsWord32(csValue')
          /\ \A f \in {"chan", "range", "aref", "flags"} \ {csOp'.op} :
                Decode(csValue')[f] = Decode(csValue)[f]]_vars

C2_Witness ==
    /\ csOp = [op |-> "aref", arg |-> PyInt(-1)]
    /\ csValue = [hi |-> 44031, lo |-> 21930]

---------------------------------------------------------------------------
(* instruction.Insn and command.Command: the malloc'ed buffers             *)

MaxLen == 2

MaxAllocs == 2

MaxBatch == 1

\* an AnalogChannel: any object with a chanspec() method (channel.pyx)
Channel(index, range, aref) == [index |-> index, range |-> range, aref |-> aref]

\* AnalogChannel.chanspec(): ChanSpec(chan=index, range=range, aref=aref)
chanspec(x) ==
    BitwiseOperator(ChanSpec__init__(x.index, x.range, x.aref, Zero))

\* hasattr(x, 'chanspec')
HasChanspec(x) == "index" \in DOMAIN x

IsPyInt(x) == "hi" \in DOMAIN x

\* sizeof(lsampl_t) and sizeof(unsigned int) are 4 bytes, sizeof(sampl_t) 2
\* (comedi.h); the limit below is the number of 16-bit limbs an element has
ElemLimbs(f) == IF f = "cmd_data" THEN 1 ELSE 2

\* Cython's conversion of a Python object to a C unsigned integer:
\* TypeError for a non-integer, OverflowError outside 0..2^width-1
ToUnsigned(f, x) ==
    IF ~IsPyInt(x) THEN [err |-> "TypeError"]
    ELSE IF x.hi < 0 \/ (ElemLimbs(f) = 1 /\ x.hi > 0) \/ x.hi >= Limb
    THEN [err |-> "OverflowError"]
    ELSE [err |-> "none", c |-> x]

\* the body of the copy loops: chanlist resolves chanspec() and
\* bitwise_value first, the data fields convert the element as it is
Convert(f, x) ==
    IF f = "cmd_chanlist"
    THEN ToUnsigned(f, bitwise_value(IF HasChanspec(x) THEN chanspec(x) ELSE x))
    ELSE ToUnsigned(f, x)

Uninit == [uninit |-> TRUE]

SetMin(S) == CHOOSE m \in S : \A k \in S : m <= k

\* the copy loop dropping the last element
CopyShort(f, items) ==
    [err |-> "none",
     cells |-> [i \in 1..Len(items) |->
                  IF i < Len(items) THEN Convert(f, items[i]).c ELSE Uninit]]

\* for i,x in enumerate(value): buffer[i] = x -- stops at the first element
\* that does not convert, leaving the rest of the block as malloc gave it
Copy(f, items) ==
    LET bad == {i \in 1..Len(items) : Convert(f, items[i]).err # "none"}
        stop == IF bad = {} THEN Len(items) + 1 ELSE SetMin(bad)
    IN  [err |-> IF bad = {} THEN "none" ELSE Convert(f, items[stop]).err,
         cells |-> [i \in 1..Len(items) |->
                      IF i < stop THEN Convert(f, items[i]).c ELSE Uninit]]

\* free(b): the block's contents are gone; a second free is counted
Free(h, b) ==
    [h EXCEPT ![b] = [frees |-> IF @.frees < 2 THEN @.frees + 1 ELSE 2,
                      cells |-> <<>>]]

\* the out-of-memory branch forgetting to reset the recorded length
OnAllocFailureKeepLen(n) == n

\* if buffer is NULL: length = 0
OnAllocFailure(n) == 0

\* _data_set / _chanlist_set up to the point where they return or raise:
\* free the old buffer, take len(value), malloc, copy.  mallocOk is what
\* malloc does: a fresh block, or NULL.
AssignOutcome(f, val, mallocOk) ==
    LET old == ptr[f]
        freed == IF old # NULL THEN {old} ELSE {}
        h1 == IF old # NULL THEN Free(heap, old) ELSE heap
    IN  IF ~val.haslen
        THEN [heap |-> h1, ptr |-> old, n |-> blen[f], err |-> "TypeError",
              freed |-> freed, malloc |-> "not called"]
        ELSE IF ~mallocOk
        THEN [heap |-> h1, ptr |-> NULL, n |-> OnAllocFailure(Len(val.items)),
              err |-> "out of memory?", freed |-> freed, malloc |-> "NULL"]
        ELSE LET copied == Copy(f, val.items)
             IN  [heap |-> Append(h1, [frees |-> 0, cells |-> copied.cells]),
                  ptr |-> Len(h1) + 1, n |-> Len(val.items),
                  err |-> copied.err, freed |-> freed, malloc |-> "block"]

\* bytes a read may find where nothing defined is stored
Garbage == {PyInt(0), PyInt(43690)}

\* what buffer[i] may read: the stored cell, or anything when the block was
\* freed or the cell never written
CellReads(f, i) ==
    LET b == ptr[f]
    IN  IF b # NULL /\ heap[b].frees = 0 /\ i <= Len(heap[b].cells)
           /\ heap[b].cells[i] # Uninit
        THEN {heap[b].cells[i]}
        ELSE Garbage

\* the sequences a read of the field may return: one per choice of what
\* each undefined cell holds
ReadResults(f) ==
    {s \in [1..blen[f] -> UNION {CellReads(f, i) : i \in 1..blen[f]}] :
        \A i \in 1..blen[f] : s[i] \in CellReads(f, i)}

\* a getter handing out the internal buffer instead of a copy
_data_get_shared(f, cells) == [field |-> f, shares |-> TRUE, cells |-> cells]

\* _data_get / _chanlist_get: a new ndarray (a new list of new ChanSpec
\* objects) filled element by element
_data_get(f, cells) == [field |-> f, shares |-> FALSE, cells |-> cells]

\* _chanspec_get: a new ChanSpec whose value is the stored word
_chanspec_get(w) == [field |-> "insn_chanspec", shares |-> FALSE, cells |-> <<w>>]

Owner(f) == IF f = "insn_data" THEN "insn" ELSE "cmd"

\* the elements the model assigns, per field: two that convert, one that
\* does not
Elems(f) ==
    IF f = "insn_data"
    THEN [a |-> PyInt(1), b |-> [hi |-> 1, lo |-> 0], bad |-> PyInt(-1)]
    ELSE IF f = "cmd_data"
    THEN [a |-> PyInt(1), b |-> PyInt(65535), bad |-> [hi |-> 1, lo |-> 0]]
    ELSE [a |-> BitwiseOperator([hi |-> 512, lo |-> 0]),
          b |-> Channel(PyInt(1), PyInt(0), BitwiseOperator(PyInt(2))),
          bad |-> PyInt(-1)]

\* the sequences of length k the model assigns: one element repeated, two
\* alternating, and one whose last element does not convert
SeqsOfLen(f, k) ==
    {[i \in 1..k |-> Elems(f).a],
     [i \in 1..k |-> IF i % 2 = 1 THEN Elems(f).b ELSE Elems(f).a],
     [i \in 1..k |-> IF i = k THEN Elems(f).bad ELSE Elems(f).b]}

\* the objects assigned: sequences of up to MaxLen elements, and an object
\* without len()
Values(f) ==
    {[haslen |-> FALSE]} \cup
    {[haslen |-> TRUE, items |-> s] :
        s \in UNION {SeqsOfLen(f, k) : k \in 0..MaxLen}}

Running == proc = "running"

\* obj.data = val, cmd.chanlist = val
Assign ==
    \E f \in Fields, mallocOk \in BOOLEAN :
      \E val \in Values(f) :
      \E r \in {AssignOutcome(f, val, mallocOk)} :
        LET twice == \E b \in r.freed : heap[b].frees > 0
        IN  /\ Running /\ alive[Owner(f)]
            /\ Len(heap) < MaxAllocs
            /\ lastFreed' = r.freed
            /\ \/ \* free() of a freed block is undefined: the allocator may
                  \* abort the process there
                  /\ twice
                  /\ proc' = "aborted"
                  /\ heap' = Free(heap, ptr[f])
                  /\ bufOp' = [op |-> "assign", field |-> f, val |-> val,
                               err |-> "abort", old |-> ptr[f],
                               malloc |-> "not called"]
                  /\ allOk' = FALSE
                  /\ UNCHANGED <<ptr, blen>>
               \/ \* ... or carry on
                  /\ heap' = r.heap
                  /\ ptr' = [ptr EXCEPT ![f] = r.ptr]
                  /\ blen' = [blen EXCEPT ![f] = r.n]
                  /\ bufOp' = [op |-> "assign", field |-> f, val |-> val,
                               err |-> r.err, old |-> ptr[f],
                               malloc |-> r.malloc]
                  /\ allOk' = (allOk /\ r.err = "none")
                  /\ UNCHANGED proc
            /\ view' = NoView
            /\ UNCHANGED <<insnChanspec, alive, usedDriver, chanVars, regVars, algVars, fvVars, devVars>>

\* x = obj.data, x = cmd.chanlist
Read ==
    \E f \in Fields :
        /\ Running /\ alive[Owner(f)]
        /\ lastFreed' = {}
        /\ \/ \* reading through a NULL pointer ends the process
              /\ blen[f] > 0 /\ ptr[f] = NULL
              /\ proc' = "aborted"
              /\ bufOp' = [op |-> "read", field |-> f, err |-> "abort"]
              /\ UNCHANGED view
           \/ /\ ~(blen[f] > 0 /\ ptr[f] = NULL)
              /\ \E cells \in ReadResults(f) : view' = _data_get(f, cells)
              /\ bufOp' = [op |-> "read", field |-> f, err |-> "none"]
              /\ UNCHANGED proc
        /\ UNCHANGED <<heap, ptr, blen, insnChanspec, alive, allOk, usedDriver,
                       chanVars, regVars, algVars, fvVars, devVars>>

\* insn.chanspec = v
SetInsnChanspec ==
    \E v \in {AllOnes, BitwiseOperator([hi |-> 512, lo |-> 1])} :
        /\ Running /\ alive["insn"]
        /\ insnChanspec' = bitwise_value(v)
        /\ bufOp' = [op |-> "set_chanspec", err |-> "none"]
        /\ lastFreed' = {}
        /\ view' = NoView
        /\ UNCHANGED <<heap, ptr, blen, alive, proc, allOk, usedDriver, chanVars, regVars, algVars, fvVars, devVars>>

\* c = insn.chanspec
ReadInsnChanspec ==
    /\ Running /\ alive["insn"]
    /\ view' = _chanspec_get(insnChanspec)
    /\ bufOp' = [op |-> "read", field |-> "insn_chanspec", err |-> "none"]
    /\ lastFreed' = {}
    /\ UNCHANGED <<heap, ptr, blen, insnChanspec, alive, proc, allOk, usedDriver,
                   chanVars, regVars, algVars, fvVars, devVars>>

\* what the caller writes into element i of a returned object: another
\* aref for a ChanSpec, another sample for an array
Mutated(f, c) ==
    IF f \in {"cmd_chanlist", "insn_chanspec"}
    THEN _aref_set(c, IF PyAnd(Shr24(c), X03) = PyInt(2)
                      THEN BitwiseOperator(PyInt(0))
                      ELSE BitwiseOperator(PyInt(2)))
    ELSE IF c = PyInt(7) THEN PyInt(8) ELSE PyInt(7)

\* x[i] = ..., x[i].aref = ..., c.aref = ... on the object a read returned
MutateView ==
    /\ Running
    /\ view # NoView
    /\ \E i \in 1..Len(view.cells) :
        LET c == Mutated(view.field, view.cells[i])
            b == IF view.field \in Fields THEN ptr[view.field] ELSE NULL
        IN  /\ view' = [view EXCEPT !.cells[i] = c]
            /\ IF view.shares /\ b # NULL /\ i <= Len(heap[b].cells)
               THEN heap' = [heap EXCEPT ![b].cells[i] = c]
               ELSE UNCHANGED heap
            /\ bufOp' = [op |-> "mutate", field |-> view.field, err |-> "none"]
    /\ lastFreed' = {}
    /\ UNCHANGED <<ptr, blen, insnChanspec, alive, proc, allOk, usedDriver,
                   chanVars, regVars, algVars, fvVars, devVars>>

\* what the driver may do to the samples of an instruction it is handed:
\* leave them, or fill the block the copied pointer designates
DriverWrites(h) ==
    LET b == ptr["insn_data"]
    IN  {h} \cup
        IF b # NULL /\ h[b].frees = 0 /\ Len(h[b].cells) > 0
        THEN {[h EXCEPT ![b].cells = [i \in 1..Len(h[b].cells) |-> PyInt(2)]]}
        ELSE {}

\* do_insn releasing the sample buffer after the call
DoInsnFreesData == IF ptr["insn_data"] # NULL THEN {ptr["insn_data"]} ELSE {}

\* the blocks do_insn and do_insnlist free among the instruction's own
DoInsnFrees == {}

\* Device.do_insn(insn): copy the struct (the data pointer with it), call
\* the driver, raise on a negative return
do_insn ==
    \E ret \in {-1, 1}, h \in DriverWrites(heap) :
        /\ Running /\ alive["insn"]
        /\ heap' = [b \in DOMAIN h |->
                      IF b \in DoInsnFrees THEN Free(h, b)[b] ELSE h[b]]
        /\ lastFreed' = DoInsnFrees
        /\ bufOp' = [op |-> "do_insn", ret |-> ret,
                     err |-> IF ret < 0 THEN "comedi_do_insn" ELSE "none"]
        /\ view' = NoView
        /\ usedDriver' = TRUE
        /\ UNCHANGED <<ptr, blen, insnChanspec, alive, proc, allOk, chanVars, regVars, algVars, fvVars, devVars>>

\* Device.do_insnlist([insn] * k): nothing for an empty list; else malloc
\* the comedi_insn array, copy the structs, call the driver, free the
\* array, raise when fewer than k completed
do_insnlist ==
    \E k \in 0..MaxBatch, mallocOk \in BOOLEAN :
      \E ret \in -1..k, h \in DriverWrites(heap) :
        /\ Running /\ alive["insn"]
        /\ IF k = 0
           THEN /\ bufOp' = [op |-> "do_insnlist", n |-> k, err |-> "none",
                             result |-> [kind |-> "None"],
                             ilAllocs |-> 0, ilFrees |-> 0]
                /\ lastFreed' = {}
                /\ UNCHANGED heap
           ELSE IF ~mallocOk
           THEN /\ bufOp' = [op |-> "do_insnlist", n |-> k,
                             err |-> "out of memory?",
                             result |-> [kind |-> "raise"],
                             ilAllocs |-> 0, ilFrees |-> 0]
                /\ lastFreed' = {}
                /\ UNCHANGED heap
           ELSE /\ heap' = [b \in DOMAIN h |->
                              IF b \in DoInsnFrees THEN Free(h, b)[b] ELSE h[b]]
                /\ lastFreed' = DoInsnFrees
                /\ bufOp' = [op |-> "do_insnlist", n |-> k,
                             err |-> IF ret < k THEN "comedi_do_insnlist"
                                     ELSE "none",
                             result |-> IF ret < k THEN [kind |-> "raise"]
                                        ELSE [kind |-> "int", n |-> ret],
                             ilAllocs |-> 1, ilFrees |-> 1]
        /\ view' = NoView
        /\ usedDriver' = (usedDriver \/ (k > 0 /\ mallocOk))
        /\ UNCHANGED <<ptr, blen, insnChanspec, alive, proc, allOk, chanVars, regVars, algVars, fvVars, devVars>>

OwnedFields(o) == {f \in Fields : Owner(f) = o}

\* Insn.__dealloc__, Command.__dealloc__: free every non-NULL buffer
DeallocFrees(o) == {ptr[f] : f \in {g \in OwnedFields(o) : ptr[g] # NULL}}

RECURSIVE FreeAll(_, _)
FreeAll(h, S) ==
    IF S = {} THEN h
    ELSE LET b == CHOOSE x \in S : TRUE IN FreeAll(Free(h, b), S \ {b})

\* the last reference to the Insn or the Command goes away
Dealloc ==
    \E o \in {"insn", "cmd"}, abort \in BOOLEAN :
        /\ Running /\ alive[o]
        /\ abort => \E b \in DeallocFrees(o) : heap[b].frees > 0
        /\ heap' = FreeAll(heap, DeallocFrees(o))
        /\ lastFreed' = DeallocFrees(o)
        /\ alive' = [alive EXCEPT ![o] = FALSE]
        /\ proc' = IF abort THEN "aborted" ELSE proc
        /\ bufOp' = [op |-> "dealloc", obj |-> o,
                     err |-> IF abort THEN "abort" ELSE "none"]
        /\ view' = NoView
        /\ UNCHANGED <<ptr, blen, insnChanspec, allOk, usedDriver, chanVars, regVars, algVars, fvVars, devVars>>

NextBuf ==
    \/ Assign
    \/ Read
    \/ SetInsnChanspec
    \/ ReadInsnChanspec
    \/ MutateView
    \/ do_insn
    \/ do_insnlist
    \/ Dealloc

\* one Insn, or one Command, as its __cinit__ leaves it: the two share
\* nothing but the allocator
InitBuf ==
    /\ heap = <<>>
    /\ ptr = [f \in Fields |-> NULL]
    /\ blen = [f \in Fields |-> 0]
    /\ insnChanspec = Zero
    /\ \E o \in {"insn", "cmd"} : alive = [x \in {"insn", "cmd"} |-> x = o]
    /\ view = NoView
    /\ bufOp = [op |-> "none"]
    /\ lastFreed = {}
    /\ proc = "running"
    /\ allOk = TRUE
    /\ usedDriver = FALSE

InitBufSpec == InitChan /\ InitBuf /\ IdleReg /\ IdleAlg /\ IdleFV /\ IdleDev

SpecBuf == InitBufSpec /\ [][NextBuf]_vars

---------------------------------------------------------------------------
\* the word an assigned element counts as: the element itself, the value
\* of a ChanSpec, or the packed word its chanspec() method produces
ExpectedWord(f, x) ==
    IF f = "cmd_chanlist" /\ HasChanspec(x) THEN chanspec(x).value
    ELSE IF IsBitwiseOperator(x) THEN x.value
    ELSE x

ExpectedCells(f, items) == [i \in 1..Len(items) |-> ExpectedWord(f, items[i])]

(* C3: while every assignment so far has succeeded, a read of the field    *)
(* just assigned returns the assigned sequence and nothing else: same      *)
(* length, same elements, a chanlist element with chanspec() as its        *)
(* packed word.                                                            *)
C3_ReadBack ==
    \A f \in Fields :
        (bufOp.op = "assign" /\ bufOp.field = f /\ bufOp.err = "none" /\ allOk)
        => /\ blen[f] = Len(bufOp.val.items)
           /\ ReadResults(f) = {ExpectedCells(f, bufOp.val.items)}

C3_Witness ==
    /\ bufOp.op = "assign" /\ bufOp.field = "cmd_chanlist"
    /\ bufOp.err = "none" /\ allOk
    /\ bufOp.old # NULL /\ heap[bufOp.old].frees = 1
    /\ ReadResults("cmd_chanlist")
         = {<<[hi |-> 512, lo |-> 1], [hi |-> 512, lo |-> 0]>>}

C5_AllocFailure ==
    \A f \in Fields :
        (bufOp.op = "assign" /\ bufOp.field = f /\ bufOp.malloc = "NULL")
        => /\ bufOp.err = "out of memory?"
           /\ ptr[f] = NULL /\ blen[f] = 0
           /\ bufOp.old # NULL
                => heap[bufOp.old].frees >= 1 /\ bufOp.old \in lastFreed
           /\ ReadResults(f) = {<<>>}
           /\ \A val \in Values(f), ok \in BOOLEAN :
                AssignOutcome(f, val, ok).freed = {}

C5_Witness ==
    /\ bufOp.op = "assign" /\ bufOp.field = "insn_data"
    /\ bufOp.malloc = "NULL" /\ bufOp.old # NULL
    /\ Len(bufOp.val.items) = 2
    /\ heap[bufOp.old].frees = 1

(* C6, as claimed: an assignment of a zero-length sequence never raises,   *)
(* whatever malloc(0) returns; it frees the previous buffer and leaves     *)
(* the length 0.                                                           *)
C6_EmptyAssignSucceeds ==
    \A f \in Fields :
        (/\ bufOp.op = "assign" /\ bufOp.field = f
         /\ bufOp.err # "abort" /\ bufOp.val.haslen
         /\ Len(bufOp.val.items) = 0)
        => /\ bufOp.err = "none"
           /\ blen[f] = 0
           /\ bufOp.old # NULL => heap[bufOp.old].frees >= 1

(* C7: while every assignment has succeeded, no block is freed twice, the  *)
(* blocks not yet freed are exactly the current buffers of the objects     *)
(* that still exist (so each is freed before its field is reallocated and  *)
(* at destruction), and do_insn and do_insnlist free no data buffer:       *)
(* do_insnlist frees only the array it allocated.                          *)
C7_FreedOnce ==
    allOk
    => /\ \A b \in DOMAIN heap : heap[b].frees <= 1
       /\ \A b \in DOMAIN heap :
            heap[b].frees = 0
            <=> \E f \in Fields : alive[Owner(f)] /\ ptr[f] = b
       /\ bufOp.op \in {"do_insn", "do_insnlist"} => lastFreed = {}
       /\ bufOp.op = "do_insnlist" => bufOp.ilFrees = bufOp.ilAllocs

C7_Witness ==
    /\ allOk /\ usedDriver
    /\ bufOp.op = "dealloc" /\ bufOp.obj = "insn"
    /\ Len(heap) >= 2
    /\ \A b \in DOMAIN heap : heap[b].frees = 1

---------------------------------------------------------------------------
\* Constant registries: _NamedInt, _Enum and _Flag.
\*
\* A Python str is a sequence of one-character strings, so that prefix
\* removal and lower-casing are computed.  A dict is a set of <<key, value>>
\* pairs with one pair for a key.

MaxAppends == 1

Has(d, k) == \E p \in d : p[1] = k

Lookup(d, k) == (CHOOSE p \in d : p[1] = k)[2]

Put(d, k, v) == {p \in d : p[1] # k} \cup {<<k, v>>}

Lower(c) ==
    CASE c = "A" -> "a"
      [] c = "B" -> "b"
      [] c = "E" -> "e"
      [] c = "F" -> "f"
      [] c = "I" -> "i"
      [] c = "L" -> "l"
      [] c = "M" -> "m"
      [] c = "N" -> "n"
      [] c = "O" -> "o"
      [] c = "T" -> "t"
      [] c = "W" -> "w"
      [] c = "C" -> "c"
      [] c = "D" -> "d"
      [] c = "G" -> "g"
      [] c = "H" -> "h"
      [] c = "K" -> "k"
      [] c = "R" -> "r"
      [] c = "S" -> "s"
      [] c = "U" -> "u"
      [] c = "V" -> "v"
      [] c = "Z" -> "z"
      [] OTHER -> c

lower(s) == [i \in 1..Len(s) |-> Lower(s[i])]

startswith(attr, prefix) ==
    /\ Len(attr) >= Len(prefix)
    /\ SubSeq(attr, 1, Len(prefix)) = prefix

\* every attribute name a comedi module of the model may hold, in the
\* order dir() lists them (sorted by code point: A < B < Z < _ < a)
Attrs ==
    << <<"X", "_", "A">>, <<"X", "_", "B">>, <<"X", "_", "Z">>,
       <<"X", "_", "a">>, <<"Y", "_", "A">> >>

\* the attribute names of a module of trigger sources, in dir() order
TrigAttrs ==
    << <<"T", "_", "A", "L", "L">>, <<"T", "_", "F", "O", "L", "L", "O", "W">>,
       <<"T", "_", "N", "O", "N", "E">>, <<"T", "_", "N", "O", "W">>,
       <<"T", "_", "T", "I", "M", "E">> >>

\* the CR_ attribute names of comedi, in dir() order
CRAttrs ==
    << <<"C", "R", "_", "A", "L", "T", "_", "F", "I", "L", "T", "E", "R">>,
       <<"C", "R", "_", "A", "L", "T", "_", "S", "O", "U", "R", "C", "E">>,
       <<"C", "R", "_", "D", "E", "G", "L", "I", "T", "C", "H">>,
       <<"C", "R", "_", "D", "I", "T", "H", "E", "R">>,
       <<"C", "R", "_", "E", "D", "G", "E">>,
       <<"C", "R", "_", "F", "L", "A", "G", "S", "_", "M", "A", "S", "K">>,
       <<"C", "R", "_", "I", "N", "V", "E", "R", "T">> >>

dir(module) ==
    SelectSeq(CRAttrs \o TrigAttrs \o Attrs, LAMBDA a : Has(module, a))

getattr(module, attr) == Lookup(module, attr)

_NamedInt(name, value, doc) == [name |-> name, value |-> value, doc |-> doc]

NoError == [kind |-> "none"]

\* the test of append that raises ValueError, without its 'and item.name'
value_collision_any_name(self, item) == Has(self._value_keys, item.value)

\* the test of append that raises ValueError
value_collision(self, item) ==
    Has(self._value_keys, item.value) /\ item.name # <<>>

\* _Enum.append: the list and _name_keys are updated before the test
append(self, item) ==
    LET appended ==
            [self EXCEPT !.list = Append(@, item),
                         !._name_keys = Put(@, item.name, item)]
    IN  IF value_collision(self, item)
        THEN [appended EXCEPT !.err =
                 [kind |-> "value collision",
                  names |-> <<item.name,
                              Lookup(self._value_keys, item.value).name>>]]
        ELSE [appended EXCEPT !._value_keys = Put(@, item.value, item),
                              !.attrs = Put(@, item.name, item)]

_item_name(attr, prefix, translation) ==
    LET item_name == SubSeq(attr, Len(prefix) + 1, Len(attr))
    IN  IF Has(translation, item_name)
        THEN Lookup(translation, item_name)
        ELSE lower(item_name)

_is_ignored(item_name, blacklist, whitelist) ==
    \/ item_name \in blacklist
    \/ whitelist # None /\ item_name \notin whitelist.names

\* _add_item keeping the value as SWIG signed it
_add_item_signed(self, module, attr, item_name) ==
    append(self, _NamedInt(item_name, getattr(module, attr), attr))

\* a raw value below zero is a 32-bit word SWIG signed: add 1 << 32
_add_item(self, module, attr, item_name) ==
    LET raw == getattr(module, attr)
        item_value == IF PyLess(raw, Zero)
                      THEN PyAdd([hi |-> Limb, lo |-> 0], raw)
                      ELSE raw
    IN  append(self, _NamedInt(item_name, item_value, attr))

\* list.sort(key=lambda item: item.value): stable, ascending
RECURSIVE sort(_)
sort(s) ==
    IF s = <<>> THEN <<>>
    ELSE LET x == s[Len(s)]
             t == sort(SubSeq(s, 1, Len(s) - 1))
             k == Cardinality({i \in 1..Len(t) : ~PyLess(x.value, t[i].value)})
         IN  SubSeq(t, 1, k) \o <<x>> \o SubSeq(t, k + 1, Len(t))

\* the loop of _Enum.__init__ over dir(_comedi), from attribute i on; an
\* exception ends it
RECURSIVE EnumScan(_, _, _, _)
EnumScan(self, module, a, i) ==
    IF i > Len(dir(module)) \/ self.err # NoError THEN self
    ELSE LET attr == dir(module)[i]
             item_name == _item_name(attr, a.prefix, a.translation)
         IN  IF ~startswith(attr, a.prefix)
                \/ _is_ignored(item_name, a.blacklist, a.whitelist)
             THEN EnumScan(self, module, a, i + 1)
             ELSE EnumScan(_add_item(self, module, attr, item_name),
                           module, a, i + 1)

_Enum__init__(module, a) ==
    LET empty == [list |-> <<>>, _name_keys |-> {}, _value_keys |-> {},
                  attrs |-> {}, _empty |-> None, _all |-> None,
                  err |-> NoError]
        scanned == EnumScan(empty, module, a, 1)
    IN  IF scanned.err # NoError THEN scanned
        ELSE [scanned EXCEPT !.list = sort(@)]

Pow2 == {1, 2, 4, 8, 16, 32, 64, 128, 256, 512, 1024, 2048, 4096, 8192,
         16384, 32768}

\* the value is one of 2^0 .. 2^31
SingleBit(v) ==
    \/ v.hi = 0 /\ v.lo \in Pow2
    \/ v.lo = 0 /\ v.hi \in Pow2

\* the test reduced to its sign check
multi_bit_sign_only(v) == PyLess(v, Zero)

\* flag.value < 0 or abs(log(flag.value, 2)) % 1 > 1e-13, for a nonzero
\* value below 2^32, where the floating-point test is exact: the logarithm
\* of a power of two is off by at most 4e-15, and that of any other value
\* is at least 3e-10 away from an integer
multi_bit(v) == PyLess(v, Zero) \/ ~SingleBit(v)

\* list.remove(x): drops the first element that is x or equals x, and
\* BitwiseOperator.__richcmp__ compares the values
remove(list, x) ==
    LET i == SetMin({j \in 1..Len(list) : list[j].value = x.value})
    IN  SubSeq(list, 1, i - 1) \o SubSeq(list, i + 1, Len(list))

\* the loop of _Flag.__init__ over the sorted list, from element i on
RECURSIVE FlagScan(_, _)
FlagScan(self, i) ==
    IF i > Len(self.list) \/ self.err # NoError THEN self
    ELSE LET flag == self.list[i]
         IN  IF flag.value = Zero
             THEN FlagScan([self EXCEPT !._empty = flag], i + 1)
             ELSE IF multi_bit(flag.value)
             THEN IF self._all # None
                  THEN [self EXCEPT !.err =
                           [kind |-> "multiple multi-bit flags",
                            names |-> <<self._all.name, flag.name>>]]
                  ELSE FlagScan([self EXCEPT !._all = flag], i + 1)
             ELSE FlagScan(self, i + 1)

_Flag__init__(module, a) ==
    LET base == _Enum__init__(module, a)
        scanned == FlagScan(base, 1)
        noEmpty == IF scanned._empty # None
                   THEN [scanned EXCEPT !.list = remove(@, scanned._empty)]
                   ELSE scanned
    IN  IF base.err # NoError THEN base
        ELSE IF scanned.err # NoError THEN scanned
        ELSE IF noEmpty._all # None
             THEN [noEmpty EXCEPT !.list = remove(@, noEmpty._all)]
             ELSE noEmpty

index_by_name(self, name) == Lookup(self._name_keys, name)

index_by_value(self, value) == Lookup(self._value_keys, value)

\* the values SWIG hands over: signed 32-bit integers
RawValues ==
    {PyInt(0), PyInt(1), PyInt(2), PyInt(3), PyInt(-1),
     [hi |-> -32768, lo |-> 0]}

Prefix == <<"X", "_">>

Translations == {{}, {<< <<"Z">>, <<>> >>}}

Filters ==
    {[blacklist |-> {}, whitelist |-> None],
     [blacklist |-> {<<"b">>}, whitelist |-> None],
     [blacklist |-> {}, whitelist |-> [names |-> {<<"a">>, <<>>}]]}

\* the members a caller appends after construction
AppendItems ==
    {_NamedInt(<<"e">>, PyInt(1), <<"doc">>),
     _NamedInt(<<"a">>, PyInt(0), <<"doc">>),
     _NamedInt(<<>>, PyInt(2), <<"doc">>)}

\* the members the registry holds: its list and its sentinels
Members(self) ==
    {self.list[i] : i \in 1..Len(self.list)}
        \cup ({self._empty, self._all} \ {None})

\* cls(name, prefix, blacklist, whitelist, translation)
Construct ==
    /\ regPc = "new"
    /\ \E r \in {IF args.cls = "_Flag" THEN _Flag__init__(comedi, args)
                 ELSE _Enum__init__(comedi, args)} :
        /\ registry' = r
        /\ regPc' = IF r.err = NoError THEN "built" ELSE "failed"
        /\ regOp' = [op |-> "construct", err |-> r.err]
    /\ UNCHANGED <<comedi, args, appends, chanVars, bufVars, algVars, fvVars, devVars>>

\* registry.append(item), as UNIT and LOGLEVEL are extended
AppendMember ==
    /\ regPc = "built"
    /\ appends < MaxAppends
    /\ \E item \in AppendItems :
        \E r \in {append(registry, item)} :
            /\ registry' = [r EXCEPT !.err = NoError]
            /\ regOp' = [op |-> "append", item |-> item, err |-> r.err,
                         used |-> \E m \in Members(registry) :
                                      m.value = item.value]
    /\ appends' = appends + 1
    /\ UNCHANGED <<comedi, args, regPc, chanVars, bufVars, algVars, fvVars, devVars>>

NextReg ==
    \/ Construct
    \/ AppendMember

\* a comedi module with some of the attributes, and the arguments of one
\* registry about to be constructed from it
InitReg ==
    /\ \E P \in SUBSET (1..4), f \in [1..4 -> RawValues] :
        comedi = {<<Attrs[i], f[i]>> : i \in P} \cup {<<Attrs[5], PyInt(3)>>}
    /\ \E cls \in {"_Enum", "_Flag"}, t \in Translations, flt \in Filters :
        args = [cls |-> cls, prefix |-> Prefix, blacklist |-> flt.blacklist,
                whitelist |-> flt.whitelist, translation |-> t]
    /\ registry = None
    /\ regPc = "new"
    /\ regOp = [op |-> "none"]
    /\ appends = 0

InitRegSpec == InitChan /\ IdleBuf /\ InitReg /\ IdleAlg /\ IdleFV /\ IdleDev

SpecReg == InitRegSpec /\ [][NextReg]_vars

---------------------------------------------------------------------------
\* the candidates of a construction, in the order of their insertion: the
\* attributes with the prefix that are not ignored, by name and unsigned
\* 32-bit value
Cands ==
    LET kept == SelectSeq(dir(comedi), LAMBDA attr :
                    /\ startswith(attr, args.prefix)
                    /\ ~_is_ignored(
                          _item_name(attr, args.prefix, args.translation),
                          args.blacklist, args.whitelist))
    IN  [i \in 1..Len(kept) |->
            [name |-> _item_name(kept[i], args.prefix, args.translation),
             value |-> [hi |-> getattr(comedi, kept[i]).hi % Limb,
                        lo |-> getattr(comedi, kept[i]).lo]]]

Raised(kind) == regOp.err.kind = kind

C9_NameConflict ==
    regOp.op = "construct"
    => /\ (\E j \in 1..Len(Cands) : \E i \in 1..(j - 1) :
                Cands[i].name = Cands[j].name)
            => regPc = "failed"
       /\ regPc = "built"
            => \A m \in Members(registry) :
                    index_by_name(registry, m.name) = m

(* C10, as claimed: in a constructed Flag registry the empty sentinel has  *)
(* value 0, the all sentinel has more than one bit set, every member of    *)
(* the sequence has exactly one bit set, and both sentinels are absent     *)
(* from the sequence and returned by the lookups by name and by value.     *)
C10_FlagSentinels ==
    (regOp.op = "construct" /\ regPc = "built" /\ args.cls = "_Flag")
    => /\ registry._empty # None => registry._empty.value = Zero
       /\ registry._all # None
            => /\ registry._all.value # Zero
               /\ ~SingleBit(registry._all.value)
       /\ \A i \in 1..Len(registry.list) : SingleBit(registry.list[i].value)
       /\ \A s \in {registry._empty, registry._all} \ {None} :
            /\ \A i \in 1..Len(registry.list) : registry.list[i] # s
            /\ index_by_name(registry, s.name) = s
            /\ index_by_value(registry, s.value) = s

---------------------------------------------------------------------------
\* the candidates of a construction that are neither zero nor a single bit
MultiBitCands ==
    {j \in 1..Len(Cands) :
        Cands[j].value # Zero /\ ~SingleBit(Cands[j].value)}

Sorted(list) ==
    \A i \in 1..(Len(list) - 1) : ~PyLess(list[i + 1].value, list[i].value)

(* C12, as claimed: the member sequence of a registry is sorted ascending  *)
(* by value after construction and after every later append.               *)
C12_Sorted == regPc = "built" => Sorted(registry.list)

---------------------------------------------------------------------------
\* BitwiseOperator: operand preparation and rich comparison

TypeError == [err |-> "TypeError"]

\* long(x): the integer itself; TypeError for an object that is no number
long(x) == IF IsPyInt(x) THEN x ELSE TypeError

\* _pso(s, o): the values of BitwiseOperator operands, then long()
_pso(s, o) == <<long(bitwise_value(s)), long(bitwise_value(o))>>

\* __richcmp__ taking None for the integer 0
__richcmp__none_as_zero(self, other, op) ==
    LET o1 == IF other = None THEN Zero ELSE other
        s == _pso(self, o1)[1]
        o == _pso(self, o1)[2]
    IN  IF s = TypeError \/ o = TypeError THEN TypeError
        ELSE CASE op = 0 -> PyLess(s, o)
               [] op = 1 -> ~PyLess(o, s)
               [] op = 2 -> s = o
               [] op = 3 -> s # o
               [] op = 4 -> PyLess(o, s)
               [] op = 5 -> ~PyLess(s, o)

\* BitwiseOperator.__richcmp__(self, other, op), op 0..5 for < <= == != > >=
__richcmp__(self, other, op) ==
    LET o1 == IF other = None THEN PySub(self.value, PyInt(1)) ELSE other
        s == _pso(self, o1)[1]
        o == _pso(self, o1)[2]
    IN  IF s = TypeError \/ o = TypeError THEN TypeError
        ELSE CASE op = 0 -> PyLess(s, o)
               [] op = 1 -> ~PyLess(o, s)
               [] op = 2 -> s = o
               [] op = 3 -> s # o
               [] op = 4 -> PyLess(o, s)
               [] op = 5 -> ~PyLess(s, o)

(* C13: every member of a constructed registry, built from the raw value   *)
(* v of its attribute, has value v if v >= 0 and v + 2^32 if v < 0, which  *)
(* lies in 0..2^32-1; a member built from a negative raw value compares    *)
(* greater than 0 and greater than every member without bit 31.            *)
C13_Unsigned ==
    (regOp.op = "construct" /\ regPc = "built")
    => \A m \in Members(registry) :
        LET raw == getattr(comedi, m.doc)
        IN  /\ m.value = IF raw.hi >= 0 THEN raw
                         ELSE [hi |-> raw.hi + Limb, lo |-> raw.lo]
            /\ IsWord32(m.value)
            /\ raw.hi < 0
                => /\ __richcmp__(m, Zero, 4)
                   /\ \A n \in Members(registry) :
                        n.value.hi < 32768 => __richcmp__(m, n, 4)

C13_Witness ==
    /\ regOp.op = "construct" /\ regPc = "built"
    /\ \E m, n, k \in Members(registry) :
        /\ getattr(comedi, m.doc) = [hi |-> -32768, lo |-> 0]
        /\ m.value = [hi |-> 32768, lo |-> 0]
        /\ n.value = PyInt(1)
        /\ getattr(comedi, k.doc) = PyInt(-1) /\ k.value = AllOnes

---------------------------------------------------------------------------
\* Bitwise operations and comparisons of BitwiseOperator, and the scalar
\* fields of a Command that take their results

\* __and__ computing the union of the bits
__and__as_or(self, other) ==
    LET so == _pso(self, other)
    IN  IF so[1] = TypeError \/ so[2] = TypeError THEN TypeError
        ELSE BitwiseOperator(PyOr(so[1], so[2]))

\* BitwiseOperator.__and__: BitwiseOperator(int(long.__and__(s, o)))
__and__(self, other) ==
    LET so == _pso(self, other)
    IN  IF so[1] = TypeError \/ so[2] = TypeError THEN TypeError
        ELSE BitwiseOperator(PyAnd(so[1], so[2]))

\* BitwiseOperator.__or__: BitwiseOperator(int(long.__or__(s, o)))
__or__(self, other) ==
    LET so == _pso(self, other)
    IN  IF so[1] = TypeError \/ so[2] = TypeError THEN TypeError
        ELSE BitwiseOperator(PyOr(so[1], so[2]))

\* Command._flags_get: FlagValue(CMDF, self._cmd.flags)
Command_flags_get(c) == FlagValue("CMDF", c.flags)

\* Command._flags_set, _start_src_set: the field, an unsigned int, is
\* assigned bitwise_value(value)
Command_field_set(c, field, value) ==
    LET conv == ToUnsigned(field, bitwise_value(value))
    IN  IF conv.err # "none" THEN [cmd |-> c, err |-> conv.err]
        ELSE [cmd |-> [c EXCEPT ![field] = conv.c], err |-> "none"]

IntInputs ==
    {Zero, PyInt(1), PyInt(6), PyInt(-1), PyInt(-6), AllOnes,
     [hi |-> 32768, lo |-> 0], [hi |-> Limb, lo |-> 1]}

OperandInputs ==
    IntInputs \cup {BitwiseOperator(v) : v \in IntInputs}
        \cup {FlagValue("CMDF", PyInt(6))}

\* a & b, where Python dispatches to BitwiseOperator.__and__ because one
\* operand is a BitwiseOperator
And ==
    /\ opnd # None
    /\ IsBitwiseOperator(opnd.a) \/ IsBitwiseOperator(opnd.b)
    /\ opnd.b # None
    /\ algOp' = [op |-> "and", result |-> __and__(opnd.a, opnd.b)]
    /\ UNCHANGED <<opnd, cmd, chanVars, bufVars, regVars, fvVars, devVars>>

\* a | b
Or ==
    /\ opnd # None
    /\ IsBitwiseOperator(opnd.a) \/ IsBitwiseOperator(opnd.b)
    /\ opnd.b # None
    /\ algOp' = [op |-> "or", result |-> __or__(opnd.a, opnd.b)]
    /\ UNCHANGED <<opnd, cmd, chanVars, bufVars, regVars, fvVars, devVars>>

\* a < b, a <= b, a == b, a != b, a > b, a >= b for a BitwiseOperator a
Compare ==
    /\ opnd # None
    /\ IsBitwiseOperator(opnd.a)
    /\ \E op \in 0..5 :
        algOp' = [op |-> "cmp", cop |-> op,
                  result |-> __richcmp__(opnd.a, opnd.b, op)]
    /\ UNCHANGED <<opnd, cmd, chanVars, bufVars, regVars, fvVars, devVars>>

\* command.flags = a, command.start_src = a
SetCommandField ==
    /\ opnd # None
    /\ \E field \in {"flags", "start_src"} :
        \E r \in {Command_field_set(cmd, field, opnd.a)} :
            /\ cmd' = r.cmd
            /\ algOp' = [op |-> "set", field |-> field, err |-> r.err]
    /\ UNCHANGED <<opnd, chanVars, bufVars, regVars, fvVars, devVars>>

\* other.flags = command.flags: the FlagValue the getter returns, assigned
\* to the same field of a second Command, which starts out zeroed
CopyCommandFlags ==
    /\ opnd # None
    /\ cmd.flags # Zero
    /\ \E r \in {Command_field_set([flags |-> Zero, start_src |-> Zero],
                                   "flags", Command_flags_get(cmd))} :
        algOp' = [op |-> "copy", from |-> cmd.flags, to |-> r.cmd.flags,
                  err |-> r.err]
    /\ UNCHANGED <<opnd, cmd, chanVars, bufVars, regVars, fvVars, devVars>>

NextOps ==
    \/ And
    \/ Or
    \/ Compare
    \/ SetCommandField
    \/ CopyCommandFlags

InitOps ==
    /\ \E a \in OperandInputs, b \in OperandInputs \cup {None} :
        opnd = [a |-> a, b |-> b]
    /\ algOp = [op |-> "none"]
    /\ cmd = [flags |-> Zero, start_src |-> Zero]

InitOpsSpec == InitChan /\ IdleBuf /\ IdleReg /\ InitOps /\ IdleFV /\ IdleDev

SpecOps == InitOpsSpec /\ [][NextOps]_vars

---------------------------------------------------------------------------
\* bit k of a Python integer limb (two's complement below zero)
BitOf(n, k) == (n \div (2 ^ k)) % 2

\* a Python integer reduced to 0..2^32-1
ToUint32(x) == [hi |-> x.hi % Limb, lo |-> x.lo]

IsNumber(x) == IsPyInt(bitwise_value(x))

\* the value a bitwise operation of the two operands has when each bit of
\* the result is the and (or) of the operands' bits: low limb bit by bit,
\* high limb bit by bit over 18 bits, and the sign
BitwiseResultOf(v, op, x, y) ==
    /\ v.lo \in 0..(Limb - 1)
    /\ \A k \in 0..15 :
        BitOf(v.lo, k) = IF op = "and" THEN BitOf(x.lo, k) * BitOf(y.lo, k)
                         ELSE IF BitOf(x.lo, k) + BitOf(y.lo, k) > 0
                              THEN 1 ELSE 0
    /\ \A k \in 0..17 :
        BitOf(v.hi, k) = IF op = "and" THEN BitOf(x.hi, k) * BitOf(y.hi, k)
                         ELSE IF BitOf(x.hi, k) + BitOf(y.hi, k) > 0
                              THEN 1 ELSE 0
    /\ v.hi < 0 <=> IF op = "and" THEN x.hi < 0 /\ y.hi < 0
                    ELSE x.hi < 0 \/ y.hi < 0

(* C14, as the code has it: for integer operands given as plain integers   *)
(* or BitwiseOperators, a & b and a | b return a new BitwiseOperator whose *)
(* value is the bitwise and/or of the operands' values as Python integers  *)
(* of unlimited width (no reduction to 32 bits: a negative or wider        *)
(* operand keeps its sign and width); when both operands lie in            *)
(* 0..2^32-1 so does the result; neither operand changes.                  *)
C14_BitwiseLong ==
    (algOp.op \in {"and", "or"} /\ IsNumber(opnd.a) /\ IsNumber(opnd.b))
    => /\ IsBitwiseOperator(algOp.result)
       /\ BitwiseResultOf(algOp.result.value, algOp.op,
                          bitwise_value(opnd.a), bitwise_value(opnd.b))
       /\ (IsWord32(bitwise_value(opnd.a)) /\ IsWord32(bitwise_value(opnd.b)))
            => IsWord32(algOp.result.value)

C14_Witness ==
    /\ algOp.op = "or"
    /\ opnd = [a |-> [hi |-> 32768, lo |-> 0], b |-> BitwiseOperator(PyInt(6))]
    /\ algOp.result = BitwiseOperator([hi |-> 32768, lo |-> 6])

(* C14, as claimed: the value of a & b and a | b is the bitwise and/or of  *)
(* the two operands coerced to 0..2^32-1, also for negative or wider       *)
(* operands.                                                               *)
C14_AsClaimed ==
    (algOp.op \in {"and", "or"} /\ IsNumber(opnd.a) /\ IsNumber(opnd.b))
    => /\ IsBitwiseOperator(algOp.result)
       /\ IsWord32(algOp.result.value)
       /\ BitwiseResultOf(algOp.result.value, algOp.op,
                          ToUint32(bitwise_value(opnd.a)),
                          ToUint32(bitwise_value(opnd.b)))

---------------------------------------------------------------------------
IsFlagValue(x) == "_value" \in DOMAIN x

\* the number an operand stands for when a FlagValue counts as its value
ScalarOf(x) == IF IsFlagValue(x) THEN x._value ELSE bitwise_value(x)

(* C15, as claimed: a FlagValue is accepted as an operand of and/or and   *)
(* as the value assigned to Command.flags or a Command *_src field, also  *)
(* when it was read from another Command, and is used as its numeric      *)
(* value.                                                                  *)
C15_FlagValueAccepted ==
    /\ (/\ algOp.op \in {"and", "or"}
        /\ IsFlagValue(opnd.a) \/ IsFlagValue(opnd.b)
        /\ IsPyInt(ScalarOf(opnd.a)) /\ IsPyInt(ScalarOf(opnd.b)))
        => /\ IsBitwiseOperator(algOp.result)
           /\ BitwiseResultOf(algOp.result.value, algOp.op,
                              ScalarOf(opnd.a), ScalarOf(opnd.b))
    /\ (algOp.op = "set" /\ IsFlagValue(opnd.a))
        => /\ algOp.err = "none"
           /\ cmd[algOp.field] = opnd.a._value
    /\ algOp.op = "copy"
        => /\ algOp.err = "none"
           /\ algOp.to = algOp.from

---------------------------------------------------------------------------
(* C16, as the code has it: comparing a BitwiseOperator x with None        *)
(* compares x.value with x.value - 1, so for every x, also when x.value    *)
(* is 0, x > None, x >= None and x != None are true and x < None,          *)
(* x <= None and x == None are false.                                      *)
C16_NoneIsOneLess ==
    (algOp.op = "cmp" /\ opnd.b = None)
    => algOp.result = (algOp.cop \in {3, 4, 5})

C16_Witness ==
    /\ algOp.op = "cmp" /\ opnd.b = None
    /\ opnd.a = BitwiseOperator(Zero)
    /\ algOp.cop = 4 /\ algOp.result = TRUE

(* C16, as claimed: x > None is true when x.value is nonzero and false     *)
(* when x.value is 0.                                                      *)
C16_AsClaimed ==
    (algOp.op = "cmp" /\ opnd.b = None /\ algOp.cop = 4)
    => algOp.result = (opnd.a.value # Zero)

---------------------------------------------------------------------------
\* FlagValue over a _Flag registry: attribute reads and writes, and str()

AttributeError == [err |-> "AttributeError"]

AssertionError == [err |-> "AssertionError"]

Returns(v) == [err |-> "none", ret |-> v]

\* getattr(self, name) on the registry: the member append set as attribute
Flag_getattr(self, name) ==
    IF Has(self.attrs, name) THEN Lookup(self.attrs, name) ELSE AttributeError

\* get testing for a common bit
_Flag_get_any_bit(self, value, name) ==
    LET flag == Flag_getattr(self, name)
    IN  IF flag = AttributeError THEN AttributeError
        ELSE IF flag.value = Zero THEN AssertionError
        ELSE Returns(PyAnd(value, flag.value) # Zero)

\* get without its assertion
_Flag_get_no_assert(self, value, name) ==
    LET flag == Flag_getattr(self, name)
    IN  IF flag = AttributeError THEN AttributeError
        ELSE Returns(PyAnd(value, flag.value) = flag.value)

\* _Flag.get(value, name)
_Flag_get(self, value, name) ==
    LET flag == Flag_getattr(self, name)
    IN  IF flag = AttributeError THEN AttributeError
        ELSE IF flag.value = Zero THEN AssertionError
        ELSE Returns(PyAnd(value, flag.value) = flag.value)

\* set clearing by plain subtraction
_Flag_set_subtract(self, value, name, status) ==
    LET flag == Flag_getattr(self, name)
    IN  IF flag = AttributeError THEN AttributeError
        ELSE IF status THEN Returns(PyOr(value, flag.value))
        ELSE Returns(PySub(value, flag.value))

\* _Flag.set(value, name, status)
_Flag_set(self, value, name, status) ==
    LET flag == Flag_getattr(self, name)
    IN  IF flag = AttributeError THEN AttributeError
        ELSE IF status THEN Returns(PyOr(value, flag.value))
        ELSE Returns(PySub(PyOr(value, flag.value), flag.value))

\* FlagValue.__getattr__(name), for a name that is no attribute of the
\* FlagValue itself
FlagValue__getattr__(self, flag, name) == _Flag_get(flag, self._value, name)

\* names run together with no separator
RECURSIVE join_nothing(_)
join_nothing(names) ==
    IF Len(names) = 0 THEN <<>> ELSE names[1] \o join_nothing(Tail(names))

\* '|'.join(names)
RECURSIVE join(_)
join(names) ==
    IF Len(names) = 0 THEN <<>>
    ELSE IF Len(names) = 1 THEN names[1]
    ELSE names[1] \o <<"|">> \o join(Tail(names))

\* FlagValue.__str__: the members of the sequence whose attribute reads
\* true; the first read that raises ends it
FlagValue__str__(self, flag) ==
    LET reads == [i \in 1..Len(flag.list) |->
                    FlagValue__getattr__(self, flag, flag.list[i].name)]
        failed == {i \in 1..Len(flag.list) : reads[i].err # "none"}
        idx == SelectSeq([i \in 1..Len(flag.list) |-> i],
                         LAMBDA i : reads[i].ret)
        flags == [k \in 1..Len(idx) |-> flag.list[idx[k]]]
    IN  IF failed # {} THEN reads[SetMin(failed)]
        ELSE IF Len(flags) = 0 THEN Returns(self._default)
        ELSE Returns(join([k \in 1..Len(flags) |-> flags[k].name]))

\* FlagValue.__setattr__(name, value) for a name other than 'flag' that
\* does not start with '_': the new _value, or the error raised
FlagValue__setattr__(self, flag, name, value) ==
    LET r == _Flag_set(flag, self._value, name, value)
    IN  IF r.err = "none"
        THEN [err |-> "none", self |-> [self EXCEPT !._value = r.ret]]
        ELSE [err |-> r.err, self |-> self]

\* attribute names read and written on a FlagValue
FlagNames ==
    {<<"a">>, <<"b">>, <<"z">>, <<>>,
     <<"n", "o", "n", "e">>, <<"n", "o", "w">>, <<"t", "i", "m", "e">>,
     <<"a", "l", "l">>}

\* values a FlagValue is created with
FlagValues == {Zero, PyInt(1), PyInt(5), AllOnes}

\* values of the module attributes a _Flag registry is built from
FlagRaw == {PyInt(0), PyInt(1), PyInt(2), PyInt(3)}

\* the modules a _Flag registry is built from: up to four attributes X_*
FlagModules ==
    {{<<Attrs[i], f[i]>> : i \in P} : P \in SUBSET (1..4), f \in [1..4 -> FlagRaw]}

\* a module of trigger sources: NONE, NOW, FOLLOW, TIME and the mask ALL
TrigModule ==
    {<<TrigAttrs[3], PyInt(0)>>, <<TrigAttrs[4], PyInt(1)>>,
     <<TrigAttrs[2], PyInt(2)>>, <<TrigAttrs[5], PyInt(4)>>,
     <<TrigAttrs[1], PyInt(127)>>}

TrigPrefix == <<"T", "_">>

\* getattr(fv, name)
GetFlag ==
    /\ \E name \in FlagNames :
        fvOp' = [op |-> "get", name |-> name,
                 out |-> FlagValue__getattr__(fv, registry, name)]
    /\ UNCHANGED <<fv, chanVars, bufVars, regVars, algVars, devVars>>

\* setattr(fv, name, status)
SetFlag ==
    /\ \E name \in FlagNames, status \in BOOLEAN :
        \E r \in {FlagValue__setattr__(fv, registry, name, status)} :
            /\ fv' = r.self
            /\ fvOp' = [op |-> "set", name |-> name, status |-> status,
                        err |-> r.err]
    /\ UNCHANGED <<chanVars, bufVars, regVars, algVars, devVars>>

\* str(fv)
StrFlag ==
    /\ fvOp' = [op |-> "str", out |-> FlagValue__str__(fv, registry)]
    /\ UNCHANGED <<fv, chanVars, bufVars, regVars, algVars, devVars>>

NextFV == GetFlag \/ SetFlag \/ StrFlag

\* a _Flag registry has been constructed from a module and a FlagValue
\* wraps an integer with it
InitFV ==
    /\ \E c \in FlagModules \cup {TrigModule} : comedi = c
    /\ \E t \in Translations, p \in {Prefix, TrigPrefix} :
        /\ (p = TrigPrefix) = (comedi = TrigModule)
        /\ comedi = TrigModule => t = {}
        /\ args = [cls |-> "_Flag", prefix |-> p, blacklist |-> {},
                   whitelist |-> None, translation |-> t]
    /\ registry = _Flag__init__(comedi, args)
    /\ registry.err = NoError
    /\ regPc = "built"
    /\ regOp = [op |-> "construct", err |-> NoError]
    /\ appends = 0
    /\ \E v \in FlagValues : fv = FlagValue("registry", v)
    /\ fvOp = [op |-> "none"]

InitFVSpec == InitChan /\ IdleBuf /\ InitFV /\ IdleAlg /\ IdleDev

SpecFV == InitFVSpec /\ [][NextFV]_vars

---------------------------------------------------------------------------
\* Claims about FlagValue

\* bit k (0..31) of a Python integer
Bit(x, k) == IF k < 16 THEN BitOf(x.lo, k) ELSE BitOf(x.hi % Limb, k - 16)

\* every bit of m is a bit of v
Covers(v, m) == \A k \in 0..31 : Bit(m, k) = 1 => Bit(v, k) = 1

\* the member an attribute name of the registry stands for
Named(name) == Lookup(registry.attrs, name)

\* C17: reading a named attribute of a FlagValue returns a boolean that is
\* true exactly when every bit of the member's value is set in the
\* FlagValue's value, for every member with a nonzero value; reading a
\* member whose value is zero fails its assertion and returns no boolean.
C17_Get ==
    (fvOp.op = "get" /\ Has(registry.attrs, fvOp.name))
    => IF Named(fvOp.name).value # Zero
       THEN fvOp.out = Returns(Covers(fv._value, Named(fvOp.name).value))
       ELSE fvOp.out = AssertionError

\* a multi-bit member reads false on a value holding only one of its bits
C17_Witness ==
    /\ fvOp.op = "get" /\ Has(registry.attrs, fvOp.name)
    /\ Named(fvOp.name).value = PyInt(3)
    /\ fv._value = PyInt(5)
    /\ fvOp.out = Returns(FALSE)

\* C18: for every value v and every member m of a Flag registry, setting m
\* true yields v | m.value and setting m false yields (v | m.value) -
\* m.value, which is v with exactly the bits of m.value cleared and every
\* other bit unchanged; setting again with the same status changes nothing,
\* and setting m true then false on zero returns zero.
C18_Set ==
    [][(fvOp'.op = "set" /\ Has(registry.attrs, fvOp'.name))
       => LET m == Named(fvOp'.name).value
              v == fv._value
              w == fv'._value
              again == _Flag_set(registry, w, fvOp'.name, fvOp'.status)
              there == _Flag_set(registry, Zero, fvOp'.name, TRUE)
              back == _Flag_set(registry, there.ret, fvOp'.name, FALSE)
          IN  /\ fvOp'.err = "none"
              /\ IsWord32(w)
              /\ fvOp'.status =>
                    /\ w = PyOr(v, m)
                    /\ \A k \in 0..31 :
                        Bit(w, k) = (IF Bit(m, k) = 1 THEN 1 ELSE Bit(v, k))
              /\ ~fvOp'.status =>
                    /\ w = PySub(PyOr(v, m), m)
                    /\ \A k \in 0..31 :
                        Bit(w, k) = (IF Bit(m, k) = 1 THEN 0 ELSE Bit(v, k))
              /\ again = Returns(w)
              /\ back = Returns(Zero)]_vars

\* a member has been cleared in a value that held only one of its two bits
C18_Witness ==
    /\ fvOp.op = "set" /\ Has(registry.attrs, fvOp.name)
    /\ ~fvOp.status
    /\ Named(fvOp.name).value = PyInt(3)
    /\ fv._value = PyInt(4)

\* the named member's value is zero or has more than one bit
NotSingleBit(m) == Cardinality({k \in 0..31 : Bit(m, k) = 1}) # 1

\* C19: of the attributes naming a member whose value is not a single
\* nonzero bit, only reading a zero-valued member is rejected (its
\* assertion fails and the value is unchanged); reading a multi-bit member
\* returns whether all its bits are set, and setting a zero-valued or a
\* multi-bit member is never rejected: it sets or clears all the member's
\* bits at once.
C19_Sentinels ==
    [][(fvOp'.op \in {"get", "set"} /\ Has(registry.attrs, fvOp'.name)
            /\ NotSingleBit(Named(fvOp'.name).value))
       => LET m == Named(fvOp'.name).value
          IN  IF fvOp'.op = "get"
              THEN /\ fv' = fv
                   /\ (m = Zero) = (fvOp'.out = AssertionError)
                   /\ (m # Zero) = (fvOp'.out \in {Returns(TRUE), Returns(FALSE)})
              ELSE /\ fvOp'.err = "none"
                   /\ fv'._value = IF fvOp'.status THEN PyOr(fv._value, m)
                                   ELSE PySub(PyOr(fv._value, m), m)]_vars

\* setting the multi-bit member has set both its bits in a zero value
C19_Witness ==
    /\ fvOp.op = "set" /\ Has(registry.attrs, fvOp.name)
    /\ fvOp.status /\ fvOp.err = "none"
    /\ Named(fvOp.name).value = PyInt(3)
    /\ fv._value = PyInt(3)

\* as stated: reading or setting such a member is rejected and the value is
\* unchanged
C19_AsClaimed ==
    [][(fvOp'.op \in {"get", "set"} /\ Has(registry.attrs, fvOp'.name)
            /\ NotSingleBit(Named(fvOp'.name).value))
       => /\ fv' = fv
          /\ IF fvOp'.op = "get" THEN fvOp'.out.err # "none"
             ELSE fvOp'.err # "none"]_vars

\* the members of the registry's sequence whose bits are all set in v
SetMembers(v) == SelectSeq(registry.list, LAMBDA f : Covers(v, f.value))

ListNames == [i \in 1..Len(registry.list) |-> registry.list[i].name]

\* the registry built from NONE=0, NOW=1, FOLLOW=2, TIME=4, ALL=127
IsTrigRegistry == comedi = TrigModule /\ regPc = "built"

NowTime == <<"n", "o", "w", "|", "t", "i", "m", "e">>

\* C21: for the Flag registry built from NONE=0, NOW=1, FOLLOW=2, TIME=4,
\* ALL=127 with the prefix stripped, the iterable members are now, follow,
\* time (none, the only zero-valued member, is the empty sentinel and is
\* removed from the sequence); the all sentinel has value 127; a FlagValue
\* over it with value 5 renders as "now|time".
C21_TrigExample ==
    IsTrigRegistry
    => /\ ListNames = << <<"n", "o", "w">>, <<"f", "o", "l", "l", "o", "w">>,
                         <<"t", "i", "m", "e">> >>
       /\ registry._empty.name = <<"n", "o", "n", "e">>
       /\ registry._all.value = PyInt(127)
       /\ (fvOp.op = "str" /\ fv._value = PyInt(5))
            => fvOp.out = Returns(NowTime)

\* the FlagValue with value 5 has been rendered
C21_Witness ==
    /\ IsTrigRegistry
    /\ fvOp.op = "str" /\ fv._value = PyInt(5)
    /\ fvOp.out = Returns(NowTime)

\* as stated: none is among the iterable members
C21_AsClaimed ==
    IsTrigRegistry
    => /\ ListNames = << <<"n", "o", "n", "e">>, <<"n", "o", "w">>,
                         <<"f", "o", "l", "l", "o", "w">>,
                         <<"t", "i", "m", "e">> >>
       /\ registry._empty.name = <<"n", "o", "n", "e">>
       /\ registry._all.value = PyInt(127)
       /\ (fvOp.op = "str" /\ fv._value = PyInt(5))
            => fvOp.out = Returns(NowTime)

---------------------------------------------------------------------------
\* ChanSpec flags over the CR registry as constant.pyx builds it

\* comedi.h: CR_ALT_SOURCE 1<<27
CR_alt_source == [hi |-> 2048, lo |-> 0]

\* the CR_ constants of comedi.h; dither and deglitch share alt_filter's bit
CRModule ==
    {<<CRAttrs[1], CR_alt_filter>>, <<CRAttrs[2], CR_alt_source>>,
     <<CRAttrs[3], CR_alt_filter>>, <<CRAttrs[4], CR_alt_filter>>,
     <<CRAttrs[5], CR_edge>>, <<CRAttrs[6], CR_all_value>>,
     <<CRAttrs[7], CR_invert>>}

\* CR = _Flag('ChanSpec flags', 'CR_', blacklist=['dither', 'deglitch'])
CRArgs ==
    [cls |-> "_Flag", prefix |-> <<"C", "R", "_">>,
     blacklist |-> {<<"d", "i", "t", "h", "e", "r">>,
                    <<"d", "e", "g", "l", "i", "t", "c", "h">>},
     whitelist |-> None, translation |-> {}]

\* the flags setter with the OR of the listed members for a mask
_flags_set_listed(CR, value, v) ==
    LET RECURSIVE OrList(_)
        OrList(l) == IF l = <<>> THEN Zero ELSE PyOr(l[1].value, OrList(Tail(l)))
        mask == OrList(CR.list)
    IN  Returns(PyOr(PyAnd(value, PySub(AllOnes, mask)),
                     PyAnd(bitwise_value(v), mask)))

\* ChanSpec._flags_set with _constant.CR looked up when it runs; CR._all is
\* None when no CR_ constant has more than one bit
_flags_set_in(CR, value, v) ==
    IF CR._all = None THEN AttributeError
    ELSE Returns(PyOr(PyAnd(value, PySub(AllOnes, CR._all.value)),
                      PyAnd(bitwise_value(v), CR._all.value)))

\* ChanSpec._flags_get with _constant.CR looked up when it runs
_flags_get_in(CR, value) ==
    IF CR._all = None THEN AttributeError
    ELSE Returns(FlagValue("CR", PyAnd(value, CR._all.value)))

\* ChanSpec(chan, range, aref, flags): the flags are assigned last
ChanSpec__init__in(CR, chan, range, aref, flags) ==
    _flags_set_in(CR, _aref_set(_range_set(_chan_set(Zero, chan), range), aref),
                  flags)

\* c = ChanSpec(chan, range, aref, flags)
PackCR ==
    /\ \E aref \in {PyInt(0), PyInt(3)}, flags \in FlagInputs :
        \E r \in {ChanSpec__init__in(registry, PyInt(255), PyInt(1), aref, flags)} :
            /\ csValue' = IF r.err = "none" THEN r.ret ELSE csValue
            /\ csOp' = [op |-> "pack", flags |-> flags, err |-> r.err]
    /\ UNCHANGED <<bufVars, regVars, algVars, fvVars, devVars>>

\* c.flags = v
SetFlagsCR ==
    /\ \E v \in FlagInputs :
        \E r \in {_flags_set_in(registry, csValue, v)} :
            /\ csValue' = IF r.err = "none" THEN r.ret ELSE csValue
            /\ csOp' = [op |-> "flags_set", flags |-> v, err |-> r.err]
    /\ UNCHANGED <<bufVars, regVars, algVars, fvVars, devVars>>

\* c.flags
GetFlagsCR ==
    /\ csOp' = [op |-> "flags_get", out |-> _flags_get_in(registry, csValue)]
    /\ UNCHANGED <<csValue, bufVars, regVars, algVars, fvVars, devVars>>

NextCR == PackCR \/ SetFlagsCR \/ GetFlagsCR

\* constant.pyx has built CR from a comedi module holding some of the CR_
\* constants; no ChanSpec has been packed
InitCR ==
    /\ InitChan
    /\ \E c \in SUBSET CRModule : comedi = c
    /\ args = CRArgs
    /\ registry = _Flag__init__(comedi, args)
    /\ registry.err = NoError
    /\ regPc = "built"
    /\ regOp = [op |-> "construct", err |-> NoError]
    /\ appends = 0

InitCRSpec == InitCR /\ IdleBuf /\ IdleAlg /\ IdleFV /\ IdleDev

SpecCR == InitCRSpec /\ [][NextCR]_vars

\* the bits set in the value of some member of the registry, the sentinels
\* included
MaskBits == {k \in 0..31 : \E m \in Members(registry) : Bit(m.value, k) = 1}

\* C22: the mask ChanSpec uses to write and read its flags field is the
\* bitwise OR of the values of all members of the CR registry (its all
\* sentinel included): writing replaces exactly those bits by the bits of
\* the flags argument, reading returns exactly those bits; and packing
\* raises an error, changing nothing, when the registry has no all
\* sentinel.
C22_FlagsMask ==
    [][LET mask == MaskBits
           new == [k \in 0..31 |-> Bit(csValue', k)]
           old == [k \in 0..31 |-> Bit(csValue, k)]
       IN  /\ csOp'.op \in {"pack", "flags_set"} =>
                IF registry._all = None
                THEN csOp'.err = "AttributeError" /\ csValue' = csValue
                ELSE /\ csOp'.err = "none"
                     /\ \A k \in 0..31 :
                          new[k] =
                            IF k \in mask
                            THEN Bit(bitwise_value(csOp'.flags), k)
                            ELSE IF csOp'.op = "flags_set" THEN old[k]
                            ELSE IF k >= 26 THEN 0
                            ELSE new[k]
           /\ csOp'.op = "flags_get" =>
                IF registry._all = None THEN csOp'.out = AttributeError
                ELSE /\ csOp'.out.err = "none"
                     /\ IsFlagValue(csOp'.out.ret)
                     /\ \A k \in 0..31 :
                          Bit(csOp'.out.ret._value, k) =
                            IF k \in mask THEN old[k] ELSE 0]_vars

\* a ChanSpec packed with every flag bit over the registry of all the CR_
\* constants holds comedi's CR_FLAGS_MASK
C22_Witness ==
    /\ comedi = CRModule /\ regPc = "built"
    /\ csOp.op = "pack" /\ csOp.flags = AllOnes /\ csOp.err = "none"
    /\ PyAnd(csValue, CR_all_value) = CR_all_value
    /\ registry._all.value = CR_all_value

---------------------------------------------------------------------------
\* Calls through StreamingSubdevice, AnalogChannel and CalibrationSetting

MaxChanlist == 2

\* comedilib.h: CS_MAX_AREFS_LENGTH, the size of setting.arefs
CS_MAX_AREFS_LENGTH == 4

IndexError == [err |-> "IndexError"]

\* _error.raise_error: a PyComediError carrying function name and code
raise_error(function_name, ret) ==
    [err |-> "PyComediError", function_name |-> function_name, ret |-> ret]

\* StreamingSubdevice.__cinit__: the outcomes of a command test, by code
_command_test_errors ==
    << None,
       [str |-> "unsupported *_src trigger"],
       [str |-> "unsupported *_src combo, or multiple triggers"],
       [str |-> "*_arg out of range"],
       [str |-> "*_arg required adjustment"],
       [str |-> "invalid chanlist"] >>

\* indexing that takes the code for a position counted from one
list_getitem_from_one(l, i) ==
    IF i < 1 \/ i > Len(l) THEN IndexError ELSE Returns(l[i])

\* l[i] on a Python list: a negative index counts from the end
list_getitem(l, i) ==
    LET j == IF i < 0 THEN i + Len(l) ELSE i
    IN  IF j < 0 \/ j >= Len(l) THEN IndexError ELSE Returns(l[j + 1])

\* what comedi_command_test may return: the codes 0..5, -1 for an error,
\* and values beyond both ends
DriverRets == -7..7

\* StreamingSubdevice.command_test()
command_test ==
    /\ \E ret \in DriverRets :
        devOp' = [op |-> "command_test", ret |-> ret, calls |-> 1,
                  out |-> list_getitem(_command_test_errors, ret)]
    /\ UNCHANGED <<setting, chanVars, bufVars, regVars, algVars, fvVars>>

\* a new Command with its chanlist assigned: Command._chanlist_set on a
\* NULL chanlist
NewCommandChanlist(value, mallocOk) ==
    IF ~mallocOk
    THEN [err |-> "out of memory?", chanlist_len |-> 0,
          chanlist |-> [null |-> TRUE, cells |-> <<>>]]
    ELSE LET copied == Copy("cmd_chanlist", value)
         IN  [err |-> copied.err, chanlist_len |-> Len(value),
              chanlist |-> [null |-> FALSE, cells |-> copied.cells]]

\* get_cmd_generic_timed setting the recorded length only
get_cmd_generic_timed_no_buffer(chanlist_len, ret, mallocOk) ==
    IF ret < 0 THEN raise_error("comedi_get_cmd_generic_timed", ret)
    ELSE Returns([chanlist_len |-> chanlist_len,
                  chanlist |-> [null |-> TRUE, cells |-> <<>>]])

\* StreamingSubdevice.get_cmd_generic_timed(chanlist_len, scan_period_ns):
\* the chanlist is assigned before the driver's code is looked at
get_cmd_generic_timed(chanlist_len, ret, mallocOk) ==
    LET set == NewCommandChanlist([i \in 1..chanlist_len |-> PyInt(0)], mallocOk)
    IN  IF set.err # "none" THEN [err |-> "PyComediError", msg |-> set.err]
        ELSE IF ret < 0 THEN raise_error("comedi_get_cmd_generic_timed", ret)
        ELSE Returns([chanlist_len |-> set.chanlist_len,
                      chanlist |-> set.chanlist])

\* cmd = subdevice.get_cmd_generic_timed(n, period)
GetCmdGenericTimed ==
    /\ \E n \in 0..MaxChanlist, ret \in {-1, 0}, mallocOk \in BOOLEAN :
        devOp' = [op |-> "get_cmd_generic_timed", chanlist_len |-> n,
                  ret |-> ret, out |-> get_cmd_generic_timed(n, ret, mallocOk)]
    /\ UNCHANGED <<setting, chanVars, bufVars, regVars, algVars, fvVars>>

\* AREF as constant.pyx builds it, in ascending value order
AREF_list ==
    << [name |-> "ground", value |-> PyInt(0)],
       [name |-> "common", value |-> PyInt(1)],
       [name |-> "diff", value |-> PyInt(2)],
       [name |-> "other", value |-> PyInt(3)] >>

\* comedi.h: SDF_GROUND 0x100000, SDF_COMMON 0x200000, SDF_DIFF 0x400000,
\* SDF_OTHER 0x800000
SDF_value(name) ==
    CASE name = "ground" -> [hi |-> 16, lo |-> 0]
      [] name = "common" -> [hi |-> 32, lo |-> 0]
      [] name = "diff" -> [hi |-> 64, lo |-> 0]
      [] name = "other" -> [hi |-> 128, lo |-> 0]

\* getattr(flags, name) on the FlagValue subdevice.get_flags() returns
SDF_get(flags, name) == PyAnd(flags, SDF_value(name)) = SDF_value(name)

\* the loop of AnalogChannel.__init__ over AREF from member i on: the raise
\* stands in the loop body, after the if
RECURSIVE ArefLoop(_, _)
ArefLoop(flags, i) ==
    IF i > Len(AREF_list) THEN Returns(None)
    ELSE IF SDF_get(flags, AREF_list[i].name) THEN Returns(AREF_list[i])
    ELSE [err |-> "PyComediError",
          msg |-> "does not support any known analog reference type"]

\* AnalogChannel.__init__(aref=...): the aref the channel ends with
AnalogChannel__init__(flags, aref) ==
    IF aref = None THEN ArefLoop(flags, 1) ELSE Returns(aref)

\* the flags a subdevice may report: every combination of the four
\* analog reference bits
SubdeviceFlags ==
    {[hi |-> 16 * g + 32 * c + 64 * d + 128 * o, lo |-> 0] :
        g \in 0..1, c \in 0..1, d \in 0..1, o \in 0..1}

\* c = subdevice.channel(0, factory=AnalogChannel, aref=...)
NewAnalogChannel ==
    /\ \E flags \in SubdeviceFlags, aref \in {None, AREF_list[3]} :
        devOp' = [op |-> "channel", flags |-> flags, aref |-> aref,
                  out |-> AnalogChannel__init__(flags, aref)]
    /\ UNCHANGED <<setting, chanVars, bufVars, regVars, algVars, fvVars>>

\* CalibrationSetting._arefs_set(value): the elements are stored until one
\* has no room, the rest of the array is zeroed when all had room, and
\* num_arefs is not assigned
_arefs_set(s, value) ==
    LET over == Len(value) > CS_MAX_AREFS_LENGTH
        copied == IF over THEN CS_MAX_AREFS_LENGTH ELSE Len(value)
    IN  [err |-> IF over THEN "ValueError" ELSE "none",
         setting |->
            [s EXCEPT !.arefs =
                [i \in 1..CS_MAX_AREFS_LENGTH |->
                    IF i <= copied THEN ToUnsigned("cmd_chanlist", value[i]).c
                    ELSE PyInt(0)]]]

\* CalibrationSetting._arefs_get(): the first num_arefs entries
_arefs_get(s) == SubSeq(s.arefs, 1, s.num_arefs)

\* the sequences assigned to arefs: up to one more than fit
ArefSeqs ==
    UNION {[1..n -> {PyInt(1), PyInt(2)}] : n \in 0..(CS_MAX_AREFS_LENGTH + 1)}

\* setting.arefs = value
SetArefs ==
    /\ \E value \in ArefSeqs :
        \E r \in {_arefs_set(setting, value)} :
            /\ setting' = r.setting
            /\ devOp' = [op |-> "arefs_set", value |-> value, err |-> r.err,
                         before |-> _arefs_get(setting)]
    /\ UNCHANGED <<chanVars, bufVars, regVars, algVars, fvVars>>

\* setting.arefs
GetArefs ==
    /\ devOp' = [op |-> "arefs_get", out |-> _arefs_get(setting)]
    /\ UNCHANGED <<setting, chanVars, bufVars, regVars, algVars, fvVars>>

NextDev ==
    \/ command_test
    \/ GetCmdGenericTimed
    \/ NewAnalogChannel
    \/ SetArefs
    \/ GetArefs

\* a subdevice is open and a calibration setting has been loaded from a
\* calibration file with no, one or two analog references
InitDev ==
    /\ \E n \in 0..2 :
        setting = [num_arefs |-> n,
                   arefs |-> [i \in 1..CS_MAX_AREFS_LENGTH |->
                                IF i <= n THEN PyInt(i - 1) ELSE PyInt(0)]]
    /\ devOp = [op |-> "none"]

InitDevSpec == InitChan /\ IdleBuf /\ IdleReg /\ IdleAlg /\ IdleFV /\ InitDev

SpecDev == InitDevSpec /\ [][NextDev]_vars

---------------------------------------------------------------------------
\* Claims about the driver calls of Device and StreamingSubdevice

\* C25: do_insnlist returns the number of instructions the driver completed
\* for every batch, the empty batch and a batch completed in part
\* included.
C25_ReturnsCount ==
    (bufOp.op = "do_insnlist" /\ bufOp.err # "out of memory?")
    => /\ bufOp.result.kind = "int"
       /\ bufOp.result.n \in 0..bufOp.n

\* the six validation outcomes by code, as the claim lists them
Taxonomy ==
    [k \in 0..5 |->
        CASE k = 0 -> None
          [] k = 1 -> [str |-> "unsupported *_src trigger"]
          [] k = 2 -> [str |-> "unsupported *_src combo, or multiple triggers"]
          [] k = 3 -> [str |-> "*_arg out of range"]
          [] k = 4 -> [str |-> "*_arg required adjustment"]
          [] k = 5 -> [str |-> "invalid chanlist"]]

\* C23: command_test calls the driver's command test once and, for a
\* driver code k in 0..5, returns the k-th entry of the six-entry taxonomy:
\* none for 0 and the fixed strings for 1..5; distinct codes give distinct
\* outcomes.
C23_Taxonomy ==
    (devOp.op = "command_test" /\ devOp.ret \in 0..5)
    => /\ devOp.calls = 1
       /\ devOp.out = Returns(Taxonomy[devOp.ret])
       /\ \A j \in 0..5 : j # devOp.ret => Taxonomy[j] # devOp.out.ret

\* the driver reported that arguments had to be adjusted
C23_Witness ==
    /\ devOp.op = "command_test" /\ devOp.ret = 4
    /\ devOp.out = Returns([str |-> "*_arg required adjustment"])

\* C24: when the driver's command test returns a code outside 0..5, in
\* particular a negative error code, command_test raises an error carrying
\* the function name and the return code; it returns none of the six
\* validation outcomes.
C24_ErrorSurfaced ==
    (devOp.op = "command_test" /\ devOp.ret \notin 0..5)
    => devOp.out = raise_error("comedi_command_test", devOp.ret)

\* the AREF members, by position, whose subdevice flag is set
Supported(flags) ==
    {i \in 1..Len(AREF_list) : SDF_get(flags, AREF_list[i].name)}

\* C28: an AnalogChannel created without an aref gets the lowest-valued
\* AREF member whose same-named subdevice flag is set; the error 'does not
\* support any known analog reference type' is raised only when the
\* subdevice supports no AREF member.
C28_DefaultAref ==
    (devOp.op = "channel" /\ devOp.aref = None)
    => IF Supported(devOp.flags) = {}
       THEN devOp.out.err = "PyComediError"
       ELSE devOp.out = Returns(AREF_list[SetMin(Supported(devOp.flags))])

\* C29: the Command get_cmd_generic_timed(chanlist_len, period) returns
\* owns a chanlist buffer of exactly chanlist_len entries, each the zero
\* word (chan 0, range 0, aref ground, no flags), and records that length;
\* when the driver call returns a negative code an error is raised and no
\* Command is returned.
C29_GenericTimed ==
    devOp.op = "get_cmd_generic_timed"
    => /\ devOp.out.err = "none" =>
            LET c == devOp.out.ret
            IN  /\ c.chanlist_len = devOp.chanlist_len
                /\ ~c.chanlist.null
                /\ Len(c.chanlist.cells) = c.chanlist_len
                /\ \A i \in 1..Len(c.chanlist.cells) :
                    /\ c.chanlist.cells[i] = Zero
                    /\ Decode(c.chanlist.cells[i]) =
                         [chan |-> Zero, range |-> Zero,
                          aref |-> AREF_index_by_value(Zero),
                          flags |-> FlagValue("CR", Zero)]
       /\ devOp.ret < 0 => devOp.out.err = "PyComediError"

\* a Command for two channels has been returned
C29_Witness ==
    /\ devOp.op = "get_cmd_generic_timed"
    /\ devOp.chanlist_len = 2 /\ devOp.ret = 0
    /\ devOp.out.err = "none"
    /\ devOp.out.ret.chanlist.cells = <<Zero, Zero>>

\* C30: after a sequence of at most CS_MAX_AREFS_LENGTH values is assigned
\* to CalibrationSetting.arefs, reading arefs returns exactly that sequence;
\* assigning a longer sequence raises an error and leaves the stored arefs
\* unchanged.
C30_ArefsRoundTrip ==
    devOp.op = "arefs_set"
    => IF Len(devOp.value) <= CS_MAX_AREFS_LENGTH
       THEN devOp.err = "none" /\ _arefs_get(setting) = devOp.value
       ELSE devOp.err = "ValueError" /\ _arefs_get(setting) = devOp.before

---------------------------------------------------------------------------
\* Claims about the buffers of Insn and Command after an assignment

\* C26: assigning one field of a Command leaves the value read from every
\* other field unchanged: assigning chanlist never changes data or its
\* length, and assigning data never changes chanlist or its length.
C26_Frame ==
    [][(bufOp'.op = "assign" /\ bufOp'.err # "abort")
       => \A g \in Fields \ {bufOp'.field} :
            /\ blen'[g] = blen[g]
            /\ \A before \in ReadResults(g) :
                 \A after \in ReadResults(g)' : after = before]_vars

\* the field's pointer is null with length zero, or a live block of
\* exactly the recorded number of initialized elements
WellFormed(f) ==
    \/ ptr[f] = NULL /\ blen[f] = 0
    \/ /\ ptr[f] # NULL
       /\ heap[ptr[f]].frees = 0
       /\ Len(heap[ptr[f]].cells) = blen[f]
       /\ \A i \in 1..blen[f] : heap[ptr[f]].cells[i] # Uninit

\* C27: after an assignment to Insn.data, Command.data or Command.chanlist
\* has failed for a reason other than allocation (the input has no length,
\* or an element cannot be converted), the stored pointer is null with
\* length zero or a live allocation holding exactly `length` initialized
\* elements.
C27_FailedAssignSafe ==
    (bufOp.op = "assign" /\ bufOp.err \in {"TypeError", "OverflowError"})
    => WellFormed(bufOp.field)

=============================================================================
